---------------------------- MODULE Spec2Model ----------------------------
(***************************************************************************)
(* The three text codecs of the repository (RLE, LZW, Huffman), the       *)
(* binary min-heap Huffman uses, and the App component that calls them.    *)
(*                                                                         *)
(* A JavaScript string is a sequence of UTF-16 code units, each a natural  *)
(* number: "A" is <<65>>, "3A" is <<51, 65>>.  Every character used is in  *)
(* the Basic Multilingual Plane, where indexing (text[i]) and iteration    *)
(* (for ... of) read the same units.  A call either returns a value or     *)
(* throws; both outcomes are records of one shape.                         *)
(***************************************************************************)
EXTENDS Integers, Sequences, FiniteSets, TLC

(***************************************************************************)
(* Bounds of the model.                                                    *)
(***************************************************************************)
\* longest text over Alphabet handed to compress
MaxLen == 4
\* longest hand-made string handed to RLECompression.decompress
MaxRaw == 4
\* most comma-separated tokens of a hand-made LZW input
MaxTokens == 3
\* longest hand-made bit-string handed to HuffmanCompression.decompress
MaxBits == 3
\* most items a MinHeap holds at a time
MaxHeap == 5

(***************************************************************************)
(* Characters.  '2' is a decimal digit, 'A' and 'B' are letters and        *)
(* LAMBDA (U+03BB) is a character whose code is above 255.                 *)
(***************************************************************************)
Alphabet == {50, 65, 66, 955}

RawAlphabet == {48, 50, 65, 66}

Comma == <<44>>

\* /\d/.test(char)
IsDigit(c) == c \in 48..57

\* Number.prototype.toString() of a non-negative integer
RECURSIVE NumToStr(_)
NumToStr(n) ==
    IF n < 10 THEN <<48 + n>> ELSE NumToStr(n \div 10) \o <<48 + (n % 10)>>

\* isNaN(parseInt(s, 10)): no leading decimal digit (s holds no sign and no
\* white space here)
ParseIntIsNaN(s) == Len(s) = 0 \/ ~IsDigit(s[1])

\* parseInt(s, 10) of a string of decimal digits
RECURSIVE ParseInt(_)
ParseInt(s) ==
    IF Len(s) = 0 THEN 0
    ELSE 10 * ParseInt(SubSeq(s, 1, Len(s) - 1)) + (s[Len(s)] - 48)

\* String.prototype.repeat
Repeat(s, n) == [k \in 1..(n * Len(s)) |-> s[((k - 1) % Len(s)) + 1]]

\* all sequences over S of length at most n
SeqsUpTo(S, n) == UNION {[1..k -> S] : k \in 0..n}

(***************************************************************************)
(* Outcomes of a call.                                                     *)
(***************************************************************************)
Return(v) == [kind |-> "return", value |-> v, message |-> ""]

Throw(m) == [kind |-> "throw", value |-> <<>>, message |-> m]

NoCall == [kind |-> "none", value |-> <<>>, message |-> ""]

(***************************************************************************)
(* RLE: src/src/algorithms/rle.ts                                          *)
(***************************************************************************)
\* RLERun writing the count of every run, a count of 1 too
RLERunAlwaysCount(count, currentChar) == NumToStr(count) \o <<currentChar>>

\* RLERun omitting the count of a run of two as well
RLERunOmitTwo(count, currentChar) ==
    (IF count > 2 THEN NumToStr(count) ELSE <<>>) \o <<currentChar>>

\* (count > 1 ? count.toString() : "") + currentChar
RLERun(count, currentChar) ==
    (IF count > 1 THEN NumToStr(count) ELSE <<>>) \o <<currentChar>>

\* RLECompressLoop without the append of the last run after the loop
RECURSIVE RLECompressLoopNoLastRun(_, _, _, _, _)
RLECompressLoopNoLastRun(text, i, result, count, currentChar) ==
    IF i > Len(text) THEN result
    ELSE IF text[i] = currentChar
         THEN RLECompressLoopNoLastRun(text, i + 1, result, count + 1,
                                       currentChar)
         ELSE RLECompressLoopNoLastRun(text, i + 1,
                                       result \o RLERun(count, currentChar),
                                       1, text[i])

\* the for loop of compress and the append of the last run; i is 1-based
RECURSIVE RLECompressLoop(_, _, _, _, _)
RLECompressLoop(text, i, result, count, currentChar) ==
    IF i > Len(text) THEN result \o RLERun(count, currentChar)
    ELSE IF text[i] = currentChar
         THEN RLECompressLoop(text, i + 1, result, count + 1, currentChar)
         ELSE RLECompressLoop(text, i + 1,
                              result \o RLERun(count, currentChar), 1, text[i])

RLECompress(text) ==
    IF text = <<>> THEN <<>>
    ELSE RLECompressLoop(text, 2, <<>>, 1, text[1])

\* RLEDecompressLoop without the check of the count buffer after the loop
RECURSIVE RLEDecompressLoopNoTrailingCheck(_, _, _, _)
RLEDecompressLoopNoTrailingCheck(compressed, i, result, countBuffer) ==
    IF i > Len(compressed) THEN Return(result)
    ELSE LET char == compressed[i] IN
         IF IsDigit(char)
         THEN RLEDecompressLoopNoTrailingCheck(compressed, i + 1, result,
                                               countBuffer \o <<char>>)
         ELSE LET repeatCount ==
                      IF countBuffer # <<>> THEN ParseInt(countBuffer) ELSE 1
              IN  RLEDecompressLoopNoTrailingCheck(
                      compressed, i + 1,
                      result \o Repeat(<<char>>, repeatCount), <<>>)

\* RLEDecompressLoop taking a count of 0 for 1: parseInt(countBuffer) || 1
RECURSIVE RLEDecompressLoopZeroIsOne(_, _, _, _)
RLEDecompressLoopZeroIsOne(compressed, i, result, countBuffer) ==
    IF i > Len(compressed)
    THEN IF countBuffer # <<>>
         THEN Throw("Compressed string cannot end with a number")
         ELSE Return(result)
    ELSE LET char == compressed[i] IN
         IF IsDigit(char)
         THEN RLEDecompressLoopZeroIsOne(compressed, i + 1, result,
                                         countBuffer \o <<char>>)
         ELSE LET repeatCount ==
                      IF countBuffer # <<>> /\ ParseInt(countBuffer) # 0
                      THEN ParseInt(countBuffer) ELSE 1
              IN  RLEDecompressLoopZeroIsOne(
                      compressed, i + 1,
                      result \o Repeat(<<char>>, repeatCount), <<>>)

\* the for loop of decompress and the check after it; i is 1-based
RECURSIVE RLEDecompressLoop(_, _, _, _)
RLEDecompressLoop(compressed, i, result, countBuffer) ==
    IF i > Len(compressed)
    THEN IF countBuffer # <<>>
         THEN Throw("Compressed string cannot end with a number")
         ELSE Return(result)
    ELSE LET char == compressed[i] IN
         IF IsDigit(char)
         THEN RLEDecompressLoop(compressed, i + 1, result,
                                countBuffer \o <<char>>)
         ELSE LET repeatCount ==
                      IF countBuffer # <<>> THEN ParseInt(countBuffer) ELSE 1
                  isNaN == countBuffer # <<>> /\ ParseIntIsNaN(countBuffer)
              IN  IF isNaN \/ repeatCount < 0
                  THEN Throw("Bad repeat count")
                  ELSE RLEDecompressLoop(compressed, i + 1,
                                         result \o Repeat(<<char>>, repeatCount),
                                         <<>>)

RLEDecompress(compressed) ==
    IF compressed = <<>> THEN Return(<<>>)
    ELSE RLEDecompressLoop(compressed, 1, <<>>, <<>>)

(***************************************************************************)
(* LZW: src/unnamed/part_001                                               *)
(*                                                                         *)
(* A Map is a function; Map.get of a missing key is undefined, modelled    *)
(* by a number no code takes.  A Number is [nan, n]: NaN is a value of     *)
(* its own, equal to no number.                                            *)
(***************************************************************************)
undefined == -1

Num(n) == [nan |-> FALSE, n |-> n]

NaN == [nan |-> TRUE, n |-> 0]

\* let dictSize = 256
InitialDictSize == 256

\* Map.prototype.set
MapSet(m, k, v) == [x \in DOMAIN m \cup {k} |-> IF x = k THEN v ELSE m[x]]

\* Map.prototype.get
MapGet(m, k) == IF k \in DOMAIN m THEN m[k] ELSE undefined

\* for (i = 0; i < dictSize; i++) dictionary.set(String.fromCharCode(i), i)
CompressSeed == [p \in {<<c>> : c \in 0..(InitialDictSize - 1)} |-> p[1]]

\* for (i = 0; i < dictSize; i++) dictionary.set(i, String.fromCharCode(i))
DecompressSeed == [c \in 0..(InitialDictSize - 1) |-> <<c>>]

\* Array.prototype.join(","): undefined is rendered as the empty string
RECURSIVE JoinCodes(_)
JoinCodes(result) ==
    IF result = <<>> THEN <<>>
    ELSE LET last == result[Len(result)]
             shown == IF last = undefined THEN <<>> ELSE NumToStr(last)
         IN  IF Len(result) = 1 THEN shown
             ELSE JoinCodes(SubSeq(result, 1, Len(result) - 1)) \o Comma \o shown

\* String.prototype.split(","): the tokens between the commas, at least one
RECURSIVE SplitFrom(_, _, _)
SplitFrom(s, i, token) ==
    IF i > Len(s) THEN <<token>>
    ELSE IF <<s[i]>> = Comma THEN <<token>> \o SplitFrom(s, i + 1, <<>>)
         ELSE SplitFrom(s, i + 1, token \o <<s[i]>>)

Split(s) == SplitFrom(s, 1, <<>>)

AllDigits(s) == \A k \in 1..Len(s) : IsDigit(s[k])

\* Number(token) for a token of decimal digits, '-' and letters other than
\* e and x: the empty token is 0, an optionally signed digit string is its
\* value, anything else is NaN
ToNumber(token) ==
    IF token = <<>> THEN Num(0)
    ELSE IF AllDigits(token) THEN Num(ParseInt(token))
    ELSE IF token[1] = 45 /\ Len(token) > 1 /\ AllDigits(Tail(token))
         THEN Num(0 - ParseInt(Tail(token)))
         ELSE NaN

\* compressed.split(",").map(Number)
ParseCodes(compressed) ==
    LET tokens == Split(compressed)
    IN  [k \in 1..Len(tokens) |-> ToNumber(tokens[k])]

\* dictionary.has(code) of the decoder
HasCode(dictionary, code) == ~code.nan /\ code.n \in DOMAIN dictionary

\* the locals of compress before its loop
LZWCompressStart ==
    [dictionary |-> CompressSeed, dictSize |-> InitialDictSize,
     result |-> <<>>, currentPhrase |-> <<>>, i |-> 1]

\* one iteration of the for loop of compress, on character char
LZWCompressBody(f, char) ==
    LET newPhrase == f.currentPhrase \o <<char>> IN
    IF newPhrase \in DOMAIN f.dictionary
    THEN [f EXCEPT !.currentPhrase = newPhrase, !.i = f.i + 1]
    ELSE [f EXCEPT !.result = Append(f.result,
                                     MapGet(f.dictionary, f.currentPhrase)),
                   !.dictionary = MapSet(f.dictionary, newPhrase, f.dictSize),
                   !.dictSize = f.dictSize + 1,
                   !.currentPhrase = <<char>>,
                   !.i = f.i + 1]

\* after the loop: the code of the pending phrase
LZWCompressFinish(f) ==
    IF f.currentPhrase # <<>>
    THEN [f EXCEPT !.result = Append(f.result,
                                     MapGet(f.dictionary, f.currentPhrase))]
    ELSE f

\* the locals of decompress before its loop, i the 1-based index of the next
\* code; the first code is handled here
LZWDecompressStart(compressed) ==
    LET codes == ParseCodes(compressed)
        firstCode == codes[1]
    IN  IF ~HasCode(DecompressSeed, firstCode)
        THEN [thrown |-> TRUE,
              message |-> "First code is not in initial dictionary",
              dictionary |-> DecompressSeed, dictSize |-> InitialDictSize,
              codes |-> codes, result |-> <<>>, prevPhrase |-> <<>>,
              entry |-> <<>>, i |-> 1]
        ELSE [thrown |-> FALSE, message |-> "",
              dictionary |-> DecompressSeed, dictSize |-> InitialDictSize,
              codes |-> codes, result |-> DecompressSeed[firstCode.n],
              prevPhrase |-> DecompressSeed[firstCode.n],
              entry |-> <<>>, i |-> 2]

\* the end of an iteration, once entry is known: append it, add
\* prevPhrase + entry[0] under the next free code, move on
LZWAccept(f, entry) ==
    [f EXCEPT !.result = f.result \o entry,
              !.dictionary = MapSet(f.dictionary, f.dictSize,
                                    f.prevPhrase \o <<entry[1]>>),
              !.dictSize = f.dictSize + 1,
              !.prevPhrase = entry,
              !.entry = entry,
              !.i = f.i + 1]

\* LZWDecompressBody taking every code it does not know for the next free
\* code
LZWDecompressBodyNoBoundsCheck(f) ==
    LET currentCode == f.codes[f.i] IN
    IF HasCode(f.dictionary, currentCode)
    THEN LZWAccept(f, f.dictionary[currentCode.n])
    ELSE LZWAccept(f, f.prevPhrase \o <<f.prevPhrase[1]>>)

\* one iteration of the for loop of decompress
LZWDecompressBody(f) ==
    LET currentCode == f.codes[f.i] IN
    IF HasCode(f.dictionary, currentCode)
    THEN LZWAccept(f, f.dictionary[currentCode.n])
    ELSE IF ~currentCode.nan /\ currentCode.n = f.dictSize
         THEN LZWAccept(f, f.prevPhrase \o <<f.prevPhrase[1]>>)
         ELSE [f EXCEPT !.thrown = TRUE,
                        !.message = "Code is out of dictionary bounds"]

\* LZWCompression.compress: the loop from index i on, the pending phrase
\* and the join
RECURSIVE LZWCompressFrom(_, _)
LZWCompressFrom(f, text) ==
    IF f.i > Len(text) THEN JoinCodes(LZWCompressFinish(f).result)
    ELSE LZWCompressFrom(LZWCompressBody(f, text[f.i]), text)

LZWCompress(text) ==
    IF text = <<>> THEN <<>> ELSE LZWCompressFrom(LZWCompressStart, text)

\* LZWCompression.decompress: the loop from the next code on
RECURSIVE LZWDecompressFrom(_)
LZWDecompressFrom(f) ==
    IF f.thrown THEN Throw(f.message)
    ELSE IF f.i > Len(f.codes) THEN Return(f.result)
    ELSE LZWDecompressFrom(LZWDecompressBody(f))

LZWDecompress(compressed) ==
    IF compressed = <<>> THEN Return(<<>>)
    ELSE LZWDecompressFrom(LZWDecompressStart(compressed))

(***************************************************************************)
(* MinHeap: src/src/types/index.ts.  The array this.heap is a function on  *)
(* 0 .. size-1, indexed as in the source.                                  *)
(***************************************************************************)
HeapSize(heap) == Cardinality(DOMAIN heap)

\* Array.prototype.push
ArrayPush(heap, item) ==
    [k \in 0..HeapSize(heap) |-> IF k = HeapSize(heap) THEN item ELSE heap[k]]

\* the array after Array.prototype.pop
ArrayPop(heap) == [k \in 0..(HeapSize(heap) - 2) |-> heap[k]]

ArraySwap(heap, a, b) ==
    [k \in DOMAIN heap |-> IF k = a THEN heap[b]
                           ELSE IF k = b THEN heap[a] ELSE heap[k]]

\* Comparator ordering the greater frequency first
ComparatorGreaterFirst(a, b) == b.freq - a.freq

\* the comparator buildHuffmanTree gives the heap
Comparator(a, b) == a.freq - b.freq

\* the while loop of bubbleUp
RECURSIVE BubbleUpFrom(_, _)
BubbleUpFrom(heap, index) ==
    IF index > 0
    THEN LET parentIndex == (index - 1) \div 2 IN
         IF Comparator(heap[index], heap[parentIndex]) < 0
         THEN BubbleUpFrom(ArraySwap(heap, index, parentIndex), parentIndex)
         ELSE heap
    ELSE heap

BubbleUp(heap) == BubbleUpFrom(heap, HeapSize(heap) - 1)

\* the while loop of bubbleDown
RECURSIVE BubbleDownFrom(_, _)
BubbleDownFrom(heap, index) ==
    LET lastIndex == HeapSize(heap) - 1
        leftChildIndex == 2 * index + 1
        rightChildIndex == 2 * index + 2
        afterLeft ==
            IF leftChildIndex <= lastIndex
               /\ Comparator(heap[leftChildIndex], heap[index]) < 0
            THEN leftChildIndex ELSE index
        smallestIndex ==
            IF rightChildIndex <= lastIndex
               /\ Comparator(heap[rightChildIndex], heap[afterLeft]) < 0
            THEN rightChildIndex ELSE afterLeft
    IN  IF smallestIndex # index
        THEN BubbleDownFrom(ArraySwap(heap, index, smallestIndex), smallestIndex)
        ELSE heap

\* bubbleDown leaving the array as it is
BubbleDownNothing(heap) == heap

BubbleDown(heap) == BubbleDownFrom(heap, 0)

HeapInsert(heap, item) == BubbleUp(ArrayPush(heap, item))

\* extractMin without the isEmpty check: on an empty array, heap[0] is
\* undefined and the assignment of pop()'s undefined to heap[0] gives the
\* array one slot
HeapExtractMinNoEmptyCheck(heap) ==
    IF HeapSize(heap) = 0
    THEN [some |-> FALSE, min |-> [freq |-> 0],
          heap |-> ArrayPush(heap, [char |-> 0, freq |-> 0])]
    ELSE IF HeapSize(heap) = 1
    THEN [some |-> TRUE, min |-> heap[0], heap |-> ArrayPop(heap)]
    ELSE [some |-> TRUE, min |-> heap[0],
          heap |-> BubbleDown([ArrayPop(heap) EXCEPT
                                  ![0] = heap[HeapSize(heap) - 1]])]

\* extractMin: the item returned (some = FALSE: undefined) and the heap left
HeapExtractMin(heap) ==
    IF HeapSize(heap) = 0
    THEN [some |-> FALSE, min |-> [freq |-> 0], heap |-> heap]
    ELSE IF HeapSize(heap) = 1
    THEN [some |-> TRUE, min |-> heap[0], heap |-> ArrayPop(heap)]
    ELSE [some |-> TRUE, min |-> heap[0],
          heap |-> BubbleDown([ArrayPop(heap) EXCEPT
                                  ![0] = heap[HeapSize(heap) - 1]])]

\* peekMin: the item returned (some = FALSE: undefined)
HeapPeekMin(heap) ==
    IF HeapSize(heap) > 0
    THEN [some |-> TRUE, min |-> heap[0]]
    ELSE [some |-> FALSE, min |-> [freq |-> 0]]

(***************************************************************************)
(* Huffman: src/src/types/index.ts.  A HuffmanNode is a record holding the *)
(* properties the object has: a leaf [char, freq], an internal node        *)
(* [freq, left, right].                                                    *)
(***************************************************************************)
HasChar(node) == "char" \in DOMAIN node

HasLeft(node) == "left" \in DOMAIN node

HasRight(node) == "right" \in DOMAIN node

\* node.char !== undefined && !node.left && !node.right
IsLeaf(node) == HasChar(node) /\ ~HasLeft(node) /\ ~HasRight(node)

\* buildFrequencyMap: the Map as the sequence of its entries in insertion
\* order, the order of first occurrence
RECURSIVE BuildFrequencyMapFrom(_, _, _)
BuildFrequencyMapFrom(text, i, freqMap) ==
    IF i > Len(text) THEN freqMap
    ELSE LET char == text[i]
             at == {k \in 1..Len(freqMap) : freqMap[k].char = char}
         IN  BuildFrequencyMapFrom(text, i + 1,
                 IF at = {}
                 THEN Append(freqMap, [char |-> char, freq |-> 1])
                 ELSE [k \in 1..Len(freqMap) |->
                          IF k \in at
                          THEN [freqMap[k] EXCEPT !.freq = freqMap[k].freq + 1]
                          ELSE freqMap[k]])

BuildFrequencyMap(text) == BuildFrequencyMapFrom(text, 1, <<>>)

\* freqMap.forEach((freq, char) => minHeap.insert({ char, freq }))
RECURSIVE InsertLeaves(_, _, _)
InsertLeaves(freqMap, i, heap) ==
    IF i > Len(freqMap) THEN heap
    ELSE InsertLeaves(freqMap, i + 1,
                      HeapInsert(heap, [char |-> freqMap[i].char,
                                        freq |-> freqMap[i].freq]))

\* ParentNode taking the frequency of its left child alone
ParentNodeLeftFreq(left, right) ==
    [freq |-> left.freq, left |-> left, right |-> right]

\* parentNode of two extracted nodes
ParentNode(left, right) ==
    [freq |-> left.freq + right.freq, left |-> left, right |-> right]

\* CombineStep making the second node extracted the left child
CombineStepSecondLeft(heap) ==
    LET first == HeapExtractMin(heap)
        second == HeapExtractMin(first.heap)
    IN  [left |-> second.min, right |-> first.min,
         minHeap |-> HeapInsert(second.heap,
                                ParentNode(second.min, first.min))]

\* one iteration of the while loop: the two nodes extracted and the heap
\* after the insert of their parentNode
CombineStep(heap) ==
    LET first == HeapExtractMin(heap)
        second == HeapExtractMin(first.heap)
    IN  [left |-> first.min, right |-> second.min,
         minHeap |-> HeapInsert(second.heap,
                                ParentNode(first.min, second.min))]

\* while (minHeap.size() > 1) { ... } return minHeap.extractMin()
RECURSIVE CombineLoop(_)
CombineLoop(heap) ==
    IF HeapSize(heap) > 1
    THEN CombineLoop(CombineStep(heap).minHeap)
    ELSE HeapExtractMin(heap).min

BuildHuffmanTree(freqMap) ==
    LET minHeap == InsertLeaves(freqMap, 1, <<>>)
    IN  IF HeapSize(minHeap) = 1 THEN HeapExtractMin(minHeap).min
        ELSE CombineLoop(minHeap)

\* Traverse appending '0' on the right edge as well
RECURSIVE TraverseOneBit(_, _)
TraverseOneBit(node, code) ==
    IF IsLeaf(node)
    THEN (node.char :> (IF code = <<>> THEN <<48>> ELSE code))
    ELSE LET l == IF HasLeft(node)
                  THEN TraverseOneBit(node.left, code \o <<48>>)
                  ELSE <<>>
             r == IF HasRight(node)
                  THEN TraverseOneBit(node.right, code \o <<48>>)
                  ELSE <<>>
         IN  r @@ l

\* Traverse with the bits of the two edges exchanged
RECURSIVE TraverseSwappedBits(_, _)
TraverseSwappedBits(node, code) ==
    IF IsLeaf(node)
    THEN (node.char :> (IF code = <<>> THEN <<48>> ELSE code))
    ELSE LET l == IF HasLeft(node)
                  THEN TraverseSwappedBits(node.left, code \o <<49>>)
                  ELSE <<>>
             r == IF HasRight(node)
                  THEN TraverseSwappedBits(node.right, code \o <<48>>)
                  ELSE <<>>
         IN  r @@ l

\* traverse(node, code) of buildEncodingMap: the entries it sets, the later
\* set of a character winning
RECURSIVE Traverse(_, _)
Traverse(node, code) ==
    IF IsLeaf(node)
    THEN (node.char :> (IF code = <<>> THEN <<48>> ELSE code))
    ELSE LET l == IF HasLeft(node) THEN Traverse(node.left, code \o <<48>>)
                  ELSE <<>>
             r == IF HasRight(node) THEN Traverse(node.right, code \o <<49>>)
                  ELSE <<>>
         IN  r @@ l

BuildEncodingMap(root) == Traverse(root, <<>>)

(***************************************************************************)
(* The serialized tree.  JSON text is modelled by its sequence of tokens:  *)
(* the braces, the property names, the string and number values.  The      *)
(* empty string is the empty sequence of tokens.                           *)
(***************************************************************************)
Open == [t |-> "{", k |-> "", v |-> 0]

Close == [t |-> "}", k |-> "", v |-> 0]

Key(name) == [t |-> "key", k |-> name, v |-> 0]

Str(c) == [t |-> "str", k |-> "", v |-> c]

Number(n) == [t |-> "num", k |-> "", v |-> n]

\* JSON.stringify(node): the properties the object has, in the order the
\* source creates them (char, freq for a leaf; freq, left, right otherwise)
RECURSIVE JSONStringify(_)
JSONStringify(node) ==
    <<Open>>
    \o (IF HasChar(node) THEN <<Key("char"), Str(node.char)>> ELSE <<>>)
    \o <<Key("freq"), Number(node.freq)>>
    \o (IF HasLeft(node) THEN <<Key("left")>> \o JSONStringify(node.left)
        ELSE <<>>)
    \o (IF HasRight(node) THEN <<Key("right")>> \o JSONStringify(node.right)
        ELSE <<>>)
    \o <<Close>>

\* JSON.parse from token i on: the object read up to now, and the index
\* after its closing brace
RECURSIVE ParseMembers(_, _, _)
ParseMembers(tokens, i, node) ==
    IF tokens[i].t = "}" THEN [node |-> node, next |-> i + 1]
    ELSE LET name == tokens[i].k IN
         IF tokens[i + 1].t = "{"
         THEN LET inner == ParseMembers(tokens, i + 2, <<>>)
              IN  ParseMembers(tokens, inner.next,
                               (name :> inner.node) @@ node)
         ELSE ParseMembers(tokens, i + 2, (name :> tokens[i + 1].v) @@ node)

\* JSON.parse(treeStr) of a serialized node
JSONParse(treeStr) == ParseMembers(treeStr, 2, <<>>).node

\* the string "ERROR: Malformed data"
ErrorMalformedData ==
    <<69, 82, 82, 79, 82, 58, 32, 77, 97, 108, 102, 111, 114, 109, 101, 100,
      32, 100, 97, 116, 97>>

\* compressed += encodingMap.get(char), for each char of text
RECURSIVE EncodeFrom(_, _, _)
EncodeFrom(text, i, encodingMap) ==
    IF i > Len(text) THEN <<>>
    ELSE encodingMap[text[i]] \o EncodeFrom(text, i + 1, encodingMap)

\* HuffmanCompress whose single-character payload is one '0'
HuffmanCompressOneBit(text) ==
    IF text = <<>> THEN [compressed |-> <<>>, tree |-> <<>>]
    ELSE LET freqMap == BuildFrequencyMap(text) IN
         IF Len(freqMap) = 1
         THEN LET char == freqMap[1].char
                  treeNode == [char |-> char, freq |-> freqMap[1].freq]
              IN  [compressed |-> <<48>>,
                   tree |-> JSONStringify(treeNode),
                   originalCharForSingle |-> char]
         ELSE LET tree == BuildHuffmanTree(freqMap)
                  encodingMap == BuildEncodingMap(tree)
              IN  [compressed |-> EncodeFrom(text, 1, encodingMap),
                   tree |-> JSONStringify(tree)]

HuffmanCompress(text) ==
    IF text = <<>> THEN [compressed |-> <<>>, tree |-> <<>>]
    ELSE LET freqMap == BuildFrequencyMap(text) IN
         IF Len(freqMap) = 1
         THEN LET char == freqMap[1].char
                  treeNode == [char |-> char, freq |-> freqMap[1].freq]
              IN  [compressed |-> Repeat(<<48>>, Len(text)),
                   tree |-> JSONStringify(treeNode),
                   originalCharForSingle |-> char]
         ELSE LET tree == BuildHuffmanTree(freqMap)
                  encodingMap == BuildEncodingMap(tree)
              IN  [compressed |-> EncodeFrom(text, 1, encodingMap),
                   tree |-> JSONStringify(tree)]

\* a return of decompress after console.error(message): a returned string,
\* with the line logged
ReturnLogged(v, m) == [kind |-> "return", value |-> v, message |-> m]

\* the for loop of decompress over the bits and the return after it
RECURSIVE HuffmanDecodeLoop(_, _, _, _, _)
HuffmanDecodeLoop(compressed, i, tree, currentNode, result) ==
    IF i > Len(compressed) THEN Return(result)
    ELSE LET bit == compressed[i] IN
         IF bit = 48 /\ ~HasLeft(currentNode)
         THEN ReturnLogged(ErrorMalformedData,
                           "Expected left child, but none found")
         ELSE IF bit = 49 /\ ~HasRight(currentNode)
         THEN ReturnLogged(ErrorMalformedData,
                           "Expected right child, but none found")
         ELSE IF bit # 48 /\ bit # 49
         THEN ReturnLogged(ErrorMalformedData, "Invalid bit encountered")
         ELSE LET child == IF bit = 48 THEN currentNode.left
                           ELSE currentNode.right
              IN  IF IsLeaf(child)
                  THEN HuffmanDecodeLoop(compressed, i + 1, tree, tree,
                                         Append(result, child.char))
                  ELSE HuffmanDecodeLoop(compressed, i + 1, tree, child, result)

HuffmanDecompress(compressed, treeStr) ==
    IF compressed = <<>> \/ treeStr = <<>> THEN Return(<<>>)
    ELSE LET tree == JSONParse(treeStr) IN
         IF IsLeaf(tree)
         THEN Return(Repeat(<<tree.char>>, Len(compressed)))
         ELSE HuffmanDecodeLoop(compressed, 1, tree, tree, <<>>)

(***************************************************************************)
(* Inputs.                                                                 *)
(***************************************************************************)
\* "ABABABA", "AAABBC", "zzzz" and twelve times 'A'
ExtraTexts ==
    {<<65, 66, 65, 66, 65, 66, 65>>, <<65, 65, 65, 66, 66, 67>>,
     <<122, 122, 122, 122>>, Repeat(<<65>>, 12)}

Texts == SeqsUpTo(Alphabet, MaxLen) \cup ExtraTexts

\* hand-made RLE input, with "3A2", "3A2BC" and "20A0B"
RLEInputs ==
    SeqsUpTo(RawAlphabet, MaxRaw)
        \cup {<<51, 65, 50>>, <<51, 65, 50, 66, 67>>, <<50, 48, 65, 48, 66>>}

\* the tokens "65", "256", "257", "258", "", "-1" and "6A"
LZWTokens ==
    {<<54, 53>>, <<50, 53, 54>>, <<50, 53, 55>>, <<50, 53, 56>>, <<>>,
     <<45, 49>>, <<54, 65>>}

RECURSIVE JoinTokens(_)
JoinTokens(tokens) ==
    IF Len(tokens) = 0 THEN <<>>
    ELSE IF Len(tokens) = 1 THEN tokens[1]
    ELSE tokens[1] \o Comma \o JoinTokens(Tail(tokens))

\* hand-made LZW input: tokens joined by commas
LZWInputs == {JoinTokens(ts) : ts \in SeqsUpTo(LZWTokens, MaxTokens)}

LeafA == [char |-> 65, freq |-> 1]

LeafB == [char |-> 66, freq |-> 1]

LeafC == [char |-> 67, freq |-> 2]

\* hand-made serialized trees: none, a lone leaf, two and three leaves, and
\* two damaged trees whose root lacks a child
HuffmanTrees ==
    {<<>>,
     JSONStringify(LeafA),
     JSONStringify(ParentNode(LeafA, LeafB)),
     JSONStringify(ParentNode(LeafC, ParentNode(LeafA, LeafB))),
     JSONStringify([freq |-> 2, left |-> ParentNode(LeafA, LeafB)]),
     JSONStringify([freq |-> 2, right |-> ParentNode(LeafA, LeafB)])}

\* hand-made bit-strings over '0', '1' and the stray character '2'
HuffmanBits == SeqsUpTo({48, 49, 50}, MaxBits)

\* the items handed to MinHeap.insert: leaves, several of one frequency
HeapItems == {[char |-> c, freq |-> f] : c \in {65, 66}, f \in 1..3}

(***************************************************************************)
(* The state: which call is running or has returned, its arguments and     *)
(* results, the locals of the LZW loops, a MinHeap, the locals of          *)
(* buildHuffmanTree, and the state of the App component.                   *)
(***************************************************************************)
VARIABLES
    pc,          \* "idle", "compress_loop", "compressed", "decompress_loop", "done"
    codec,       \* "none", "RLE", "LZW", "Huffman"
    text,        \* the argument of compress
    comp,        \* the compressed string: compress's result, decompress's argument
    tree,        \* Huffman's serialized tree
    viaCompress, \* decompress was handed what compress returned
    out,         \* the outcome of decompress
    lzwEnc,      \* the locals of LZWCompression.compress
    lzwDec,      \* the locals of LZWCompression.decompress
    heap,        \* this.heap of a MinHeap of Huffman nodes
    lastCall,    \* the last method called on the heap, "none" before any
    returned,    \* what the last extractMin or peekMin returned
    treeBuild,   \* the locals of HuffmanCompression.buildHuffmanTree
    selectedFile,  \* App: the File chosen, or null
    algorithm,     \* App: "RLE", "Huffman", "LZW"
    loading,       \* App: a handler is at work
    resultState,   \* App: the state named result, a CompressionResult or null
    operationMode, \* App: "compress", "decompress"
    compressedText,   \* App: the text area of the decompress tab
    decompressedText, \* App: the text last decompressed
    huffmanTree,   \* App: the serialized tree, set by compress or typed
    inFlight,      \* App: the handleCompress calls waiting on extractTextFromPDF
    downloaded     \* App: the last call of downloadCompressedFile, or null

vars == <<pc, codec, text, comp, tree, viaCompress, out, lzwEnc, lzwDec,
          heap, lastCall, returned, treeBuild,
          selectedFile, algorithm, loading, resultState, operationMode,
          compressedText, decompressedText, huffmanTree, inFlight,
          downloaded>>

treeVars == <<treeBuild>>

appVars == <<selectedFile, algorithm, loading, resultState, operationMode,
             compressedText, decompressedText, huffmanTree, inFlight,
             downloaded>>

codecVars == <<pc, codec, text, comp, tree, viaCompress, out, lzwEnc, lzwDec>>

heapVars == <<heap, lastCall, returned>>

LZWDecompressIdle ==
    [thrown |-> FALSE, message |-> "", dictionary |-> DecompressSeed,
     dictSize |-> InitialDictSize, codes |-> <<>>, result |-> <<>>,
     prevPhrase |-> <<>>, entry |-> <<>>, i |-> 1]

\* buildHuffmanTree not called; left and right are the nodes last extracted
TreeBuildIdle ==
    [pc |-> "idle", freqMap |-> <<>>, minHeap |-> <<>>,
     left |-> [freq |-> 0], right |-> [freq |-> 0], root |-> [freq |-> 0]]

\* JavaScript's null, for a File and for a CompressionResult
null == [null |-> TRUE]

Init ==
    /\ pc = "idle"
    /\ codec = "none"
    /\ text = <<>>
    /\ comp = <<>>
    /\ tree = <<>>
    /\ viaCompress = FALSE
    /\ out = NoCall
    /\ lzwEnc = LZWCompressStart
    /\ lzwDec = LZWDecompressIdle
    /\ heap = <<>>
    /\ lastCall = "none"
    /\ returned = HeapPeekMin(<<>>)
    /\ treeBuild = TreeBuildIdle
    /\ selectedFile = null
    /\ algorithm = "RLE"
    /\ loading = FALSE
    /\ resultState = null
    /\ operationMode = "compress"
    /\ compressedText = <<>>
    /\ decompressedText = <<>>
    /\ huffmanTree = <<>>
    /\ inFlight = {}
    /\ downloaded = null

\* decompress is called on what compress returned, or on a hand-made input
DecompressCallable(c) ==
    \/ pc = "idle"
    \/ pc = "compressed" /\ codec = c

(***************************************************************************)
(* RLE calls.                                                              *)
(***************************************************************************)
RLECompressCall ==
    /\ pc = "idle"
    /\ \E t \in Texts :
          /\ text' = t
          /\ comp' = RLECompress(t)
    /\ codec' = "RLE"
    /\ viaCompress' = TRUE
    /\ pc' = "compressed"
    /\ UNCHANGED <<tree, out, lzwEnc, lzwDec>>
    /\ UNCHANGED heapVars
    /\ UNCHANGED <<treeVars, appVars>>

RLEDecompressCall ==
    /\ DecompressCallable("RLE")
    /\ \E c \in (IF pc = "compressed" THEN {comp} ELSE RLEInputs) :
          /\ comp' = c
          /\ out' = RLEDecompress(c)
    /\ codec' = "RLE"
    /\ pc' = "done"
    /\ UNCHANGED <<text, tree, viaCompress, lzwEnc, lzwDec>>
    /\ UNCHANGED heapVars
    /\ UNCHANGED <<treeVars, appVars>>

(***************************************************************************)
(* Huffman calls.                                                          *)
(***************************************************************************)
HuffmanCompressCall ==
    /\ pc = "idle"
    /\ \E t \in Texts :
          LET r == HuffmanCompress(t) IN
          /\ text' = t
          /\ comp' = r.compressed
          /\ tree' = r.tree
    /\ codec' = "Huffman"
    /\ viaCompress' = TRUE
    /\ pc' = "compressed"
    /\ UNCHANGED <<out, lzwEnc, lzwDec>>
    /\ UNCHANGED heapVars
    /\ UNCHANGED <<treeVars, appVars>>

HuffmanDecompressCall ==
    /\ DecompressCallable("Huffman")
    /\ \E c \in (IF pc = "compressed" THEN {comp} ELSE HuffmanBits),
          t \in (IF pc = "compressed" THEN {tree} ELSE HuffmanTrees) :
          /\ comp' = c
          /\ tree' = t
          /\ out' = HuffmanDecompress(c, t)
    /\ codec' = "Huffman"
    /\ pc' = "done"
    /\ UNCHANGED <<text, viaCompress, lzwEnc, lzwDec>>
    /\ UNCHANGED heapVars
    /\ UNCHANGED <<treeVars, appVars>>

(***************************************************************************)
(* LZW calls, one action per loop iteration.                               *)
(***************************************************************************)
LZWCompressCall ==
    /\ pc = "idle"
    /\ \E t \in Texts :
          /\ text' = t
          /\ pc' = IF t = <<>> THEN "compressed" ELSE "compress_loop"
    /\ comp' = <<>>
    /\ codec' = "LZW"
    /\ viaCompress' = TRUE
    /\ lzwEnc' = LZWCompressStart
    /\ UNCHANGED <<tree, out, lzwDec>>
    /\ UNCHANGED heapVars
    /\ UNCHANGED <<treeVars, appVars>>

LZWCompressStep ==
    /\ pc = "compress_loop"
    /\ lzwEnc.i <= Len(text)
    /\ lzwEnc' = LZWCompressBody(lzwEnc, text[lzwEnc.i])
    /\ UNCHANGED <<pc, codec, text, comp, tree, viaCompress, out, lzwDec>>
    /\ UNCHANGED heapVars
    /\ UNCHANGED <<treeVars, appVars>>

LZWCompressReturn ==
    /\ pc = "compress_loop"
    /\ lzwEnc.i > Len(text)
    /\ lzwEnc' = LZWCompressFinish(lzwEnc)
    /\ comp' = JoinCodes(lzwEnc'.result)
    /\ pc' = "compressed"
    /\ UNCHANGED <<codec, text, tree, viaCompress, out, lzwDec>>
    /\ UNCHANGED heapVars
    /\ UNCHANGED <<treeVars, appVars>>

\* LZWDecompressCall without the early return on an empty argument
LZWDecompressCallNoEmptyCheck ==
    /\ DecompressCallable("LZW")
    /\ \E c \in (IF pc = "compressed" THEN {comp} ELSE LZWInputs) :
          /\ comp' = c
          /\ LET f == LZWDecompressStart(c) IN
             /\ lzwDec' = f
             /\ out' = IF f.thrown THEN Throw(f.message) ELSE NoCall
             /\ pc' = IF f.thrown THEN "done" ELSE "decompress_loop"
    /\ codec' = "LZW"
    /\ UNCHANGED <<text, tree, viaCompress, lzwEnc>>
    /\ UNCHANGED heapVars
    /\ UNCHANGED <<treeVars, appVars>>

LZWDecompressCall ==
    /\ DecompressCallable("LZW")
    /\ \E c \in (IF pc = "compressed" THEN {comp} ELSE LZWInputs) :
          /\ comp' = c
          /\ IF c = <<>>
             THEN /\ out' = Return(<<>>)
                  /\ pc' = "done"
                  /\ lzwDec' = LZWDecompressIdle
             ELSE LET f == LZWDecompressStart(c) IN
                  /\ lzwDec' = f
                  /\ out' = IF f.thrown THEN Throw(f.message) ELSE NoCall
                  /\ pc' = IF f.thrown THEN "done" ELSE "decompress_loop"
    /\ codec' = "LZW"
    /\ UNCHANGED <<text, tree, viaCompress, lzwEnc>>
    /\ UNCHANGED heapVars
    /\ UNCHANGED <<treeVars, appVars>>

LZWDecompressStep ==
    /\ pc = "decompress_loop"
    /\ lzwDec.i <= Len(lzwDec.codes)
    /\ lzwDec' = LZWDecompressBody(lzwDec)
    /\ out' = IF lzwDec'.thrown THEN Throw(lzwDec'.message) ELSE NoCall
    /\ pc' = IF lzwDec'.thrown THEN "done" ELSE "decompress_loop"
    /\ UNCHANGED <<codec, text, comp, tree, viaCompress, lzwEnc>>
    /\ UNCHANGED heapVars
    /\ UNCHANGED <<treeVars, appVars>>

LZWDecompressReturn ==
    /\ pc = "decompress_loop"
    /\ lzwDec.i > Len(lzwDec.codes)
    /\ out' = Return(lzwDec.result)
    /\ pc' = "done"
    /\ UNCHANGED <<codec, text, comp, tree, viaCompress, lzwEnc, lzwDec>>
    /\ UNCHANGED heapVars
    /\ UNCHANGED <<treeVars, appVars>>

(***************************************************************************)
(* MinHeap calls.                                                          *)
(***************************************************************************)
HeapInsertCall ==
    /\ HeapSize(heap) < MaxHeap
    /\ \E item \in HeapItems : heap' = HeapInsert(heap, item)
    /\ lastCall' = "insert"
    /\ UNCHANGED returned
    /\ UNCHANGED codecVars
    /\ UNCHANGED <<treeVars, appVars>>

HeapExtractMinCall ==
    /\ LET r == HeapExtractMin(heap) IN
       /\ heap' = r.heap
       /\ returned' = [some |-> r.some, min |-> r.min]
    /\ lastCall' = "extractMin"
    /\ UNCHANGED codecVars
    /\ UNCHANGED <<treeVars, appVars>>

HeapPeekMinCall ==
    /\ returned' = HeapPeekMin(heap)
    /\ lastCall' = "peekMin"
    /\ UNCHANGED heap
    /\ UNCHANGED codecVars
    /\ UNCHANGED <<treeVars, appVars>>

Next ==
    \/ RLECompressCall
    \/ RLEDecompressCall
    \/ HuffmanCompressCall
    \/ HuffmanDecompressCall
    \/ LZWCompressCall
    \/ LZWCompressStep
    \/ LZWCompressReturn
    \/ LZWDecompressCall
    \/ LZWDecompressStep
    \/ LZWDecompressReturn

Spec == Init /\ [][Next]_vars

(***************************************************************************)
(* buildHuffmanTree, one action per iteration of its while loop.           *)
(***************************************************************************)
BuildHuffmanTreeCall ==
    /\ treeBuild.pc = "idle"
    /\ \E t \in Texts \ {<<>>} :
          LET freqMap == BuildFrequencyMap(t)
              minHeap == InsertLeaves(freqMap, 1, <<>>)
          IN  treeBuild' =
                  IF HeapSize(minHeap) = 1
                  THEN [TreeBuildIdle EXCEPT
                           !.pc = "done",
                           !.freqMap = freqMap,
                           !.minHeap = HeapExtractMin(minHeap).heap,
                           !.root = HeapExtractMin(minHeap).min]
                  ELSE [TreeBuildIdle EXCEPT
                           !.pc = "loop",
                           !.freqMap = freqMap,
                           !.minHeap = minHeap]
    /\ UNCHANGED <<codecVars, heapVars, appVars>>

BuildHuffmanTreeStep ==
    /\ treeBuild.pc = "loop"
    /\ HeapSize(treeBuild.minHeap) > 1
    /\ LET step == CombineStep(treeBuild.minHeap) IN
       treeBuild' = [treeBuild EXCEPT !.left = step.left,
                                      !.right = step.right,
                                      !.minHeap = step.minHeap]
    /\ UNCHANGED <<codecVars, heapVars, appVars>>

BuildHuffmanTreeReturn ==
    /\ treeBuild.pc = "loop"
    /\ HeapSize(treeBuild.minHeap) <= 1
    /\ LET last == HeapExtractMin(treeBuild.minHeap) IN
       treeBuild' = [treeBuild EXCEPT !.pc = "done",
                                      !.minHeap = last.heap,
                                      !.root = last.min]
    /\ UNCHANGED <<codecVars, heapVars, appVars>>

TreeNext ==
    \/ BuildHuffmanTreeCall
    \/ BuildHuffmanTreeStep
    \/ BuildHuffmanTreeReturn

SpecTree == Init /\ [][TreeNext]_vars

(***************************************************************************)
(* App: the component whose source src/README.md holds.  One action per    *)
(* handler; handleCompress is two, split at its await.  An alert changes   *)
(* no state.  handleCopy writes copyStates alone and is left out.          *)
(***************************************************************************)
\* the Files offered to the file input: "a.pdf", "b.pdf" and "c.txt"
FileA == [name |-> <<97, 46, 112, 100, 102>>, type |-> "application/pdf"]

FileB == [name |-> <<98, 46, 112, 100, 102>>, type |-> "application/pdf"]

FileC == [name |-> <<99, 46, 116, 120, 116>>, type |-> "text/plain"]

\* what extractTextFromPDF resolves to for each PDF: "AAB" and "ABB"
PDFText(file) == IF file = FileA THEN <<65, 65, 66>> ELSE <<65, 66, 66>>

\* what is typed into the text area of the decompress tab: nothing, a
\* blank, "2AB", "65,66", "01"
TypedTexts ==
    {<<>>, <<32>>, <<50, 65, 66>>, <<54, 53, 44, 54, 54>>, <<48, 49>>}

\* what is typed into the tree field: nothing, a tree of two leaves
TypedTrees == {<<>>, JSONStringify(ParentNode(LeafA, LeafB))}

\* !s.trim()
TrimIsEmpty(s) == \A k \in 1..Len(s) : s[k] \in {9, 10, 13, 32}

\* name.split(".")[0]
SplitDotFirst(name) ==
    LET dots == {k \in 1..Len(name) : name[k] = 46} IN
    IF dots = {} THEN name
    ELSE SubSeq(name, 1, (CHOOSE k \in dots : \A h \in dots : k <= h) - 1)

\* algorithm.toLowerCase(): "rle", "huffman", "lzw"
ToLowerCase(a) ==
    IF a = "RLE" THEN <<114, 108, 101>>
    ELSE IF a = "Huffman" THEN <<104, 117, 102, 102, 109, 97, 110>>
    ELSE <<108, 122, 119>>

\* `${selectedFile?.name.split(".")[0]}_${result.algorithm.toLowerCase()}
\* _compressed.txt`; the undefined of a null file is written "undefined"
DownloadFilename(file, a) ==
    (IF file = null
     THEN <<117, 110, 100, 101, 102, 105, 110, 101, 100>>
     ELSE SplitDotFirst(file.name))
    \o <<95>> \o ToLowerCase(a)
    \o <<95, 99, 111, 109, 112, 114, 101, 115, 115, 101, 100, 46, 116, 120, 116>>

\* new Blob([s]).size: the bytes of s in UTF-8
RECURSIVE BlobSize(_)
BlobSize(s) ==
    IF s = <<>> THEN 0
    ELSE (IF s[1] < 128 THEN 1 ELSE IF s[1] < 2048 THEN 2 ELSE 3)
         + BlobSize(Tail(s))

\* the switch of handleCompress
CompressWith(a, t) ==
    IF a = "RLE" THEN [compressed |-> RLECompress(t), tree |-> <<>>]
    ELSE IF a = "Huffman"
    THEN [compressed |-> HuffmanCompress(t).compressed,
          tree |-> HuffmanCompress(t).tree]
    ELSE [compressed |-> LZWCompress(t), tree |-> <<>>]

\* the CompressionResult of handleCompress; the ratio (1 - c / o) * 100 is
\* kept as a fraction
CompressionResult(a, t, compressedData) ==
    LET compressedSize == BlobSize(compressedData)
        originalSize == BlobSize(t)
    IN  [originalSize |-> originalSize,
         compressedSize |-> compressedSize,
         compressionRatio |->
             IF originalSize > 0
             THEN [num |-> 100 * (originalSize - compressedSize),
                   den |-> originalSize]
             ELSE [num |-> 0, den |-> 1],
         compressedData |-> compressedData,
         algorithm |-> a]

\* the switch of handleDecompress
DecompressWith(a, c, treeStr) ==
    IF a = "RLE" THEN RLEDecompress(c)
    ELSE IF a = "Huffman"
    THEN IF treeStr = <<>> THEN Throw("Huffman tree is required")
         ELSE HuffmanDecompress(c, treeStr)
    ELSE LZWDecompress(c)

\* the file input of the compress tab hands over a File, or none
HandleFileChange ==
    /\ operationMode = "compress"
    /\ \E file \in {FileA, FileB, FileC, null} :
          IF file # null /\ file.type = "application/pdf"
          THEN /\ selectedFile' = file
               /\ resultState' = null
          ELSE UNCHANGED <<selectedFile, resultState>>
    /\ UNCHANGED <<algorithm, loading, operationMode, compressedText,
                   decompressedText, huffmanTree, inFlight, downloaded>>
    /\ UNCHANGED <<codecVars, heapVars, treeVars>>

\* handleCompress up to its await; the button is disabled while loading
\* and without a file
HandleCompress ==
    /\ operationMode = "compress"
    /\ ~loading
    /\ selectedFile # null
    /\ loading' = TRUE
    /\ resultState' = null
    /\ inFlight' = inFlight \cup {[selectedFile |-> selectedFile,
                                   algorithm |-> algorithm]}
    /\ UNCHANGED <<selectedFile, algorithm, operationMode, compressedText,
                   decompressedText, huffmanTree, downloaded>>
    /\ UNCHANGED <<codecVars, heapVars, treeVars>>

\* handleCompress from its await on, extractTextFromPDF having resolved;
\* selectedFile and algorithm are those the call started with
HandleCompressResolved ==
    /\ \E call \in inFlight :
          LET t == PDFText(call.selectedFile)
              r == CompressWith(call.algorithm, t)
          IN  /\ inFlight' = inFlight \ {call}
              /\ IF t = <<>>
                 THEN UNCHANGED <<huffmanTree, resultState>>
                 ELSE /\ huffmanTree' = IF call.algorithm = "Huffman"
                                        THEN r.tree ELSE huffmanTree
                      /\ resultState' = CompressionResult(call.algorithm, t,
                                                          r.compressed)
    /\ loading' = FALSE
    /\ UNCHANGED <<selectedFile, algorithm, operationMode, compressedText,
                   decompressedText, downloaded>>
    /\ UNCHANGED <<codecVars, heapVars, treeVars>>

\* handleCompress from its await on, extractTextFromPDF having rejected
HandleCompressRejected ==
    /\ \E call \in inFlight : inFlight' = inFlight \ {call}
    /\ loading' = FALSE
    /\ UNCHANGED <<selectedFile, algorithm, resultState, operationMode,
                   compressedText, decompressedText, huffmanTree, downloaded>>
    /\ UNCHANGED <<codecVars, heapVars, treeVars>>

\* the button is disabled while loading and on a blank text
HandleDecompress ==
    /\ operationMode = "decompress"
    /\ ~loading
    /\ ~TrimIsEmpty(compressedText)
    /\ LET decompressed == DecompressWith(algorithm, compressedText,
                                          huffmanTree)
       IN  decompressedText' = IF decompressed.kind = "return"
                               THEN decompressed.value ELSE <<>>
    /\ loading' = FALSE
    /\ UNCHANGED <<selectedFile, algorithm, resultState, operationMode,
                   compressedText, huffmanTree, inFlight, downloaded>>
    /\ UNCHANGED <<codecVars, heapVars, treeVars>>

\* the other tab is chosen
HandleOperationModeChange ==
    /\ \E value \in {"compress", "decompress"} \ {operationMode} :
          operationMode' = value
    /\ resultState' = null
    /\ decompressedText' = <<>>
    /\ compressedText' = <<>>
    /\ selectedFile' = null
    /\ UNCHANGED <<algorithm, loading, huffmanTree, inFlight, downloaded>>
    /\ UNCHANGED <<codecVars, heapVars, treeVars>>

\* onValueChange of the algorithm Select
AlgorithmChange ==
    /\ \E val \in {"RLE", "Huffman", "LZW"} : algorithm' = val
    /\ UNCHANGED <<selectedFile, loading, resultState, operationMode,
                   compressedText, decompressedText, huffmanTree, inFlight,
                   downloaded>>
    /\ UNCHANGED <<codecVars, heapVars, treeVars>>

\* onChange of the text area of the decompress tab
CompressedTextChange ==
    /\ operationMode = "decompress"
    /\ \E value \in TypedTexts : compressedText' = value
    /\ UNCHANGED <<selectedFile, algorithm, loading, resultState,
                   operationMode, decompressedText, huffmanTree, inFlight,
                   downloaded>>
    /\ UNCHANGED <<codecVars, heapVars, treeVars>>

\* onChange of the tree field, shown for Huffman in the decompress tab
HuffmanTreeChange ==
    /\ operationMode = "decompress"
    /\ algorithm = "Huffman"
    /\ \E value \in TypedTrees : huffmanTree' = value
    /\ UNCHANGED <<selectedFile, algorithm, loading, resultState,
                   operationMode, compressedText, decompressedText, inFlight,
                   downloaded>>
    /\ UNCHANGED <<codecVars, heapVars, treeVars>>

\* onClick of the Download button, shown with a result in the compress tab
DownloadClick ==
    /\ resultState # null
    /\ operationMode = "compress"
    /\ downloaded' = [content |-> resultState.compressedData,
                      filename |-> DownloadFilename(selectedFile,
                                                    resultState.algorithm)]
    /\ UNCHANGED <<selectedFile, algorithm, loading, resultState,
                   operationMode, compressedText, decompressedText,
                   huffmanTree, inFlight>>
    /\ UNCHANGED <<codecVars, heapVars, treeVars>>

AppNext ==
    \/ HandleFileChange
    \/ HandleCompress
    \/ HandleCompressResolved
    \/ HandleCompressRejected
    \/ HandleDecompress
    \/ HandleOperationModeChange
    \/ AlgorithmChange
    \/ CompressedTextChange
    \/ HuffmanTreeChange
    \/ DownloadClick

SpecApp == Init /\ [][AppNext]_vars

\* a MinHeap on its own, under any sequence of calls
HeapNext ==
    \/ HeapInsertCall
    \/ HeapExtractMinCall
    \/ HeapPeekMinCall

SpecHeap == Init /\ [][HeapNext]_vars

(***************************************************************************)
(* Properties.                                                             *)
(***************************************************************************)
\* decompress has finished on what compress of codec c returned for text
RoundTripDone(c) == pc = "done" /\ codec = c /\ viaCompress

ReturnedText == out.kind = "return" /\ out.value = text

\* C1: RLE round-trip: for every text, digits included, decompressing the
\* compressed text returns the text and raises no error.
C1_RLERoundTrip == RoundTripDone("RLE") => ReturnedText

\* C2: LZW round-trip: for every text, characters above 255 included,
\* decompressing the compressed text returns the text and raises no error.
C2_LZWRoundTrip == RoundTripDone("LZW") => ReturnedText

C4_HuffmanMalformedIsError ==
    (pc = "done" /\ codec = "Huffman" /\ out.message # "")
        => out.kind = "throw"

\* C5: RLE malformed input: for every non-empty compressed string whose
\* last character is a decimal digit, decompress raises an error and
\* returns no string.
C5_RLETrailingCount ==
    (pc = "done" /\ codec = "RLE" /\ comp # <<>> /\ IsDigit(comp[Len(comp)]))
        => out.kind = "throw"

\* decompress of "3A2" has thrown
C5_Witness ==
    /\ pc = "done"
    /\ codec = "RLE"
    /\ comp = <<51, 65, 50>>
    /\ out.kind = "throw"

\* the decoder has read the codes of a non-empty input whose first code is
\* not one of 0..255
FirstCodeUnseeded ==
    /\ codec = "LZW"
    /\ pc \in {"decompress_loop", "done"}
    /\ comp # <<>>
    /\ LET firstCode == ParseCodes(comp)[1]
       IN  firstCode.nan \/ firstCode.n \notin 0..(InitialDictSize - 1)

\* the decoder is about to read a code that is neither in its dictionary nor
\* its next free code
NextCodeUnknown ==
    /\ pc = "decompress_loop"
    /\ lzwDec.i <= Len(lzwDec.codes)
    /\ LET currentCode == lzwDec.codes[lzwDec.i]
       IN  \/ currentCode.nan
           \/ /\ currentCode.n \notin DOMAIN lzwDec.dictionary
              /\ currentCode.n # lzwDec.dictSize

Thrown == pc = "done" /\ out.kind = "throw"

\* C6: LZW malformed codes: decompress raises an error when the first code
\* is not one of 0..255, and at the first later code that is neither in the
\* decoder's dictionary nor equal to its next free code; no text is returned.
C6_LZWMalformedCodes ==
    [][(FirstCodeUnseeded' => Thrown') /\ (NextCodeUnknown => Thrown')]_vars

\* decompress has thrown at a code after the first
C6_Witness ==
    /\ Thrown
    /\ codec = "LZW"
    /\ lzwDec.i >= 2
    /\ lzwDec.message = "Code is out of dictionary bounds"

\* C7: Huffman decode without its tree: decompress of a non-empty
\* compressed string with an empty serialized tree reports a failure
\* instead of returning a string.
C7_HuffmanMissingTree ==
    (pc = "done" /\ codec = "Huffman" /\ comp # <<>> /\ tree = <<>>)
        => out.kind = "throw"

\* C8: empty input: each compress of "" returns "" (Huffman: with an empty
\* tree), and each decompress of "" (Huffman: with the empty tree) returns
\* "", without an error.
C8_EmptyInput ==
    /\ (pc = "compressed" /\ text = <<>>) => (comp = <<>> /\ tree = <<>>)
    /\ (pc = "done" /\ comp = <<>> /\ tree = <<>>) => out = Return(<<>>)

\* LZW has compressed "" and decompressed the result
C8_Witness ==
    /\ RoundTripDone("LZW")
    /\ text = <<>>
    /\ comp = <<>>
    /\ out = Return(<<>>)

\* text is one character, once or more
OneCharacterText == text # <<>> /\ \A k \in 1..Len(text) : text[k] = text[1]

StoredUnder(code) ==
    {p \in DOMAIN lzwEnc.dictionary : lzwEnc.dictionary[p] = code}

\* the decoder, on what compress returned, is about to read a code equal to
\* its next free code
MeetsNextFreeCode ==
    /\ pc = "decompress_loop"
    /\ viaCompress
    /\ lzwDec.i <= Len(lzwDec.codes)
    /\ lzwDec.codes[lzwDec.i] = Num(lzwDec.dictSize)

\* compress("ABABABA") has returned: the codes are 65,66,256,258 and, once
\* decompress has finished, its result is the text
ABABABAExample ==
    (codec = "LZW" /\ viaCompress /\ text = <<65, 66, 65, 66, 65, 66, 65>>
       /\ pc \in {"compressed", "decompress_loop", "done"})
        => /\ lzwEnc.result = <<65, 66, 256, 258>>
           /\ pc = "done" => ReturnedText

\* C10: LZW self-referential code: compress("ABABABA") yields 65,66,256,258
\* and decompress of it returns "ABABABA"; whenever the decoder meets a code
\* equal to its next free code it raises no error and decodes it as the
\* previous phrase followed by that phrase's first character, which is the
\* phrase the compressor stored under that code.
C10_LZWSelfReferential ==
    [][/\ ABABABAExample'
       /\ MeetsNextFreeCode =>
             /\ ~lzwDec'.thrown
             /\ lzwDec'.entry = lzwDec.prevPhrase \o <<lzwDec.prevPhrase[1]>>
             /\ StoredUnder(lzwDec.dictSize) = {lzwDec'.entry}]_vars

\* the indices at which a maximal run of identical characters of t starts
RunStarts(t) == {k \in 1..Len(t) : k = 1 \/ t[k] # t[k - 1]}

\* the length of the maximal run of t that starts at k
RunLength(t, k) ==
    LET later == {j \in RunStarts(t) : j > k}
        nextStart == IF later = {} THEN Len(t) + 1
                     ELSE CHOOSE j \in later : \A h \in later : j <= h
    IN  nextStart - k

\* the decimal numeral of n, by its digits
Decimal(n) ==
    LET width == CHOOSE w \in 1..6 : 10^(w - 1) <= n /\ n < 10^w
    IN  [d \in 1..width |-> 48 + ((n \div 10^(width - d)) % 10)]

\* the runs of t from index k on, each written as its length (if not 1) and
\* its character
RECURSIVE RunsFrom(_, _)
RunsFrom(t, k) ==
    IF k > Len(t) THEN <<>>
    ELSE LET n == RunLength(t, k)
         IN  (IF n = 1 THEN <<>> ELSE Decimal(n)) \o <<t[k]>>
             \o RunsFrom(t, k + n)

\* RLE compress has returned for a non-empty text
RLECompressed == codec = "RLE" /\ viaCompress /\ text # <<>>

\* C11: RLE compress format: for every non-empty text, the compressed string
\* is the concatenation, over the maximal runs of identical characters in
\* input order, of the run length in decimal (omitted when 1) and the run's
\* character; "AAABBC" gives "3A2BC".
C11_RLEFormat ==
    RLECompressed =>
        /\ comp = RunsFrom(text, 1)
        /\ text = <<65, 65, 65, 66, 66, 67>> => comp = <<51, 65, 50, 66, 67>>

\* "AAABBC" has been compressed to "3A2BC"
C11_Witness ==
    /\ RLECompressed
    /\ pc = "compressed"
    /\ text = <<65, 65, 65, 66, 66, 67>>
    /\ comp = <<51, 65, 50, 66, 67>>

\* C17: RLE size on repetitive text: for every text with a run of three or
\* more identical characters the compressed string is strictly shorter than
\* the text, and for no text is it longer than the text.
C17_RLESize ==
    (codec = "RLE" /\ viaCompress) =>
        /\ Len(comp) <= Len(text)
        /\ (\E k \in RunStarts(text) : RunLength(text, k) >= 3)
               => Len(comp) < Len(text)

\* a text with a run of three or more has been compressed to a shorter string
C17_Witness ==
    /\ codec = "RLE"
    /\ viaCompress
    /\ pc = "compressed"
    /\ \E k \in RunStarts(text) : RunLength(text, k) >= 3
    /\ Len(comp) < Len(text)

\* the tokens of c: its maximal comma-free stretches, the empty ones included
TokensOf(c) ==
    LET n == Len(c)
        isToken(a, b) ==
            /\ b >= a - 1
            /\ a = 1 \/ <<c[a - 1]>> = Comma
            /\ b = n \/ <<c[b + 1]>> = Comma
            /\ \A k \in a..b : <<c[k]>> # Comma
    IN  {SubSeq(c, ab[1], ab[2]) :
            ab \in {xy \in (1..(n + 1)) \X (0..n) : isToken(xy[1], xy[2])}}

\* a token that is not a non-negative base-10 integer
NotACode(token) == token = <<>> \/ \E k \in 1..Len(token) : ~IsDigit(token[k])

\* C12: LZW token validation: decompress raises an error for every
\* comma-separated input in which some token is not a non-negative base-10
\* integer (a non-numeric token, a negative number, or an empty token from a
\* leading, trailing or doubled comma); it never decodes such a token.
C12_LZWTokenValidation ==
    (/\ pc = "done"
     /\ codec = "LZW"
     /\ comp # <<>>
     /\ \E token \in TokensOf(comp) : NotACode(token))
        => out.kind = "throw"

\* how many times item x is held by the array h
Holds(h, x) == Cardinality({k \in DOMAIN h : h[k] = x})

\* the step is an extractMin call on a heap holding an item
ExtractsFromNonEmpty == lastCall' = "extractMin" /\ HeapSize(heap) > 0

\* C14: MinHeap.extractMin on a non-empty heap, after any sequence of insert
\* and extractMin calls, returns an item that no held item compares less
\* than, removes exactly that one item and leaves the multiset of the others
\* unchanged; so two extractMin calls in a row return items in
\* non-decreasing comparator order.
C14_ExtractMin ==
    [][ExtractsFromNonEmpty =>
          /\ returned'.some
          /\ Holds(heap, returned'.min) >= 1
          /\ \A k \in DOMAIN heap : Comparator(heap[k], returned'.min) >= 0
          /\ HeapSize(heap') = HeapSize(heap) - 1
          /\ \A x \in HeapItems :
                Holds(heap', x) =
                    Holds(heap, x) - (IF x = returned'.min THEN 1 ELSE 0)
          /\ (lastCall = "extractMin" /\ returned.some)
                => Comparator(returned'.min, returned.min) >= 0]_vars

\* extractMin has returned an item of a heap of four; of the three items
\* left some compare greater than it and they are not all of one frequency
C14_Witness ==
    /\ lastCall = "extractMin"
    /\ returned.some
    /\ HeapSize(heap) = MaxHeap - 2
    /\ \E k \in DOMAIN heap : Comparator(heap[k], returned.min) > 0
    /\ \E k \in DOMAIN heap : Comparator(heap[k], heap[0]) > 0

\* the step is an extractMin or a peekMin call on an empty heap
CallsOnEmpty == lastCall' \in {"extractMin", "peekMin"} /\ HeapSize(heap) = 0

\* the last call was made on an empty heap and returned undefined
AfterCallOnEmpty == lastCall \in {"extractMin", "peekMin"} /\ ~returned.some

\* C15: extractMin and peekMin on an empty heap return undefined, raise
\* nothing and leave the heap empty; insert and extractMin work normally
\* afterwards: the insert leaves the heap holding the one item inserted, and
\* extractMin on it returns that item and leaves the heap empty.
C15_EmptyHeap ==
    [][/\ CallsOnEmpty => (~returned'.some /\ HeapSize(heap') = 0)
       /\ (AfterCallOnEmpty /\ lastCall' = "insert")
             => (HeapSize(heap') = 1 /\ heap'[0] \in HeapItems)
       /\ (HeapSize(heap) = 1 /\ lastCall' = "extractMin")
             => (/\ returned'.some
                 /\ returned'.min = heap[0]
                 /\ HeapSize(heap') = 0)]_vars

\* extractMin has been called on an empty heap, which is empty still
C15_Witness ==
    /\ lastCall = "extractMin"
    /\ ~returned.some
    /\ HeapSize(heap) = 0

\* how many times character c occurs in t
Occurrences(t, c) == Cardinality({k \in 1..Len(t) : t[k] = c})

CharsOf(t) == {t[k] : k \in 1..Len(t)}

\* the encoding map compress builds for the text
EncodingMapOfText == BuildEncodingMap(BuildHuffmanTree(BuildFrequencyMap(text)))

\* Huffman compress has returned for a text of two or more distinct characters
HuffmanCompressedSeveral ==
    codec = "Huffman" /\ viaCompress /\ Cardinality(CharsOf(text)) >= 2

\* C16: Huffman code lengths follow frequencies: for a text of two or more
\* distinct characters, a character occurring strictly more often than
\* another has a code no longer than the other's.
C16_HuffmanCodeLengths ==
    HuffmanCompressedSeveral =>
        \A a \in CharsOf(text), b \in CharsOf(text) :
            Occurrences(text, a) > Occurrences(text, b)
                => Len(EncodingMapOfText[a]) <= Len(EncodingMapOfText[b])

\* "AAABBC" has been compressed: 'A', the most frequent, has a code of one
\* bit and 'C', the least frequent, a code of two
C16_Witness ==
    /\ HuffmanCompressedSeveral
    /\ pc = "compressed"
    /\ text = <<65, 65, 65, 66, 66, 67>>
    /\ Len(EncodingMapOfText[65]) = 1
    /\ Len(EncodingMapOfText[67]) = 2

\* every node of the tree is a leaf or has both children
RECURSIVE FullTree(_)
FullTree(node) ==
    \/ IsLeaf(node)
    \/ /\ HasLeft(node) /\ HasRight(node)
       /\ FullTree(node.left) /\ FullTree(node.right)

\* the node a walk of the bits from index i on ends at, starting at node and
\* going back to root from every leaf; the tree is full, the bits '0' and '1'
RECURSIVE WalkFrom(_, _, _, _)
WalkFrom(bits, i, root, node) ==
    IF i > Len(bits) THEN node
    ELSE LET child == IF bits[i] = 48 THEN node.left ELSE node.right
         IN  WalkFrom(bits, i + 1, root, IF IsLeaf(child) THEN root ELSE child)

\* decompress has run on a bit-string that ends inside a codeword of a full
\* tree of two or more leaves
EndsInsideCodeword ==
    /\ pc = "done"
    /\ codec = "Huffman"
    /\ comp # <<>>
    /\ tree # <<>>
    /\ \A k \in 1..Len(comp) : comp[k] \in {48, 49}
    /\ LET root == JSONParse(tree) IN
       /\ ~IsLeaf(root)
       /\ FullTree(root)
       /\ WalkFrom(comp, 1, root, root) # root

\* C18: no silent truncation in Huffman decoding: for a tree of two or more
\* leaves, when the bit-string ends while the walk is not back at the root,
\* decompress reports a failure instead of returning the text decoded so far.
C18_HuffmanNoSilentTruncation ==
    EndsInsideCodeword =>
        \/ out.kind = "throw"
        \/ out.message # ""
        \/ out.value = ErrorMalformedData

\* the step of compress appends a code to result
EmitsCode ==
    pc = "compress_loop" /\ Len(lzwEnc'.result) = Len(lzwEnc.result) + 1

\* the entries compress has added to the seeded dictionary
AddedPhrases(dictionary) == DOMAIN dictionary \ DOMAIN CompressSeed

\* C19: LZW compressor dictionary invariant: at every step of compress, for
\* every text (characters above 255 included, as first character too), the
\* phrase whose code is emitted is a key of the dictionary at that moment, so
\* every emitted code is a defined integer; new codes are assigned
\* sequentially from 256 and no entry is removed or overwritten.
C19_LZWCompressorDictionary ==
    [][/\ EmitsCode =>
             /\ lzwEnc.currentPhrase \in DOMAIN lzwEnc.dictionary
             /\ lzwEnc'.result[Len(lzwEnc'.result)]
                    = lzwEnc.dictionary[lzwEnc.currentPhrase]
             /\ lzwEnc'.result[Len(lzwEnc'.result)] \in Nat
       /\ pc = "compress_loop" =>
             /\ \A p \in DOMAIN lzwEnc.dictionary :
                   /\ p \in DOMAIN lzwEnc'.dictionary
                   /\ lzwEnc'.dictionary[p] = lzwEnc.dictionary[p]
             /\ \A p \in DOMAIN lzwEnc'.dictionary \ DOMAIN lzwEnc.dictionary :
                   lzwEnc'.dictionary[p]
                       = 256 + Cardinality(AddedPhrases(lzwEnc.dictionary))]_vars

\* decompress is running, or has ended, on what compress returned
DecodingCompressorOutput ==
    codec = "LZW" /\ viaCompress /\ pc \in {"decompress_loop", "done"}

\* how many codes the decoder has processed
CodesProcessed == lzwDec.i - 1

\* C20: LZW lockstep dictionaries: when decompress runs on the output of
\* compress, after processing the k-th code (k >= 2) its dictionary holds
\* the codes 256 .. 256+k-2, each mapped to the phrase the compressor stored
\* under that code; the k-th code the compressor emitted is less than
\* 256+k-1, so the decoder never reaches its out-of-bounds error.
C20_LZWLockstep ==
    DecodingCompressorOutput =>
        /\ (~lzwDec.thrown /\ CodesProcessed >= 2) =>
              /\ DOMAIN lzwDec.dictionary \ DOMAIN DecompressSeed
                     = 256..(256 + CodesProcessed - 2)
              /\ \A code \in DOMAIN lzwDec.dictionary \ DOMAIN DecompressSeed :
                    StoredUnder(code) = {lzwDec.dictionary[code]}
        /\ \A k \in 1..Len(lzwEnc.result) :
              lzwEnc.result[k] \in Nat /\ lzwEnc.result[k] < 256 + k - 1
        /\ ~(lzwDec.thrown
             /\ lzwDec.message = "Code is out of dictionary bounds")

\* the tree compress builds for the text
TreeOfText == BuildHuffmanTree(BuildFrequencyMap(text))

\* the leaves of the tree, left to right
RECURSIVE LeavesOf(_)
LeavesOf(node) ==
    IF ~HasLeft(node) /\ ~HasRight(node) THEN <<node>>
    ELSE (IF HasLeft(node) THEN LeavesOf(node.left) ELSE <<>>)
         \o (IF HasRight(node) THEN LeavesOf(node.right) ELSE <<>>)

\* every node is a leaf holding a character of t and its number of
\* occurrences, or has no character, two children and their frequencies' sum
RECURSIVE ShapedFor(_, _)
ShapedFor(node, t) ==
    IF ~HasLeft(node) /\ ~HasRight(node)
    THEN /\ HasChar(node)
         /\ node.freq = Occurrences(t, node.char)
         /\ node.freq > 0
    ELSE /\ ~HasChar(node)
         /\ HasLeft(node)
         /\ HasRight(node)
         /\ node.freq = node.left.freq + node.right.freq
         /\ ShapedFor(node.left, t)
         /\ ShapedFor(node.right, t)

\* C21: Huffman tree shape: for every text with k >= 2 distinct characters
\* the tree compress builds has exactly k leaves, one per distinct character,
\* each holding the character's number of occurrences; every other node has
\* no character and exactly two children whose frequencies sum to its own;
\* the root's frequency is the number of characters of the text.
C21_HuffmanTreeShape ==
    HuffmanCompressedSeveral =>
        LET leaves == LeavesOf(TreeOfText) IN
        /\ ShapedFor(TreeOfText, text)
        /\ Len(leaves) = Cardinality(CharsOf(text))
        /\ {leaves[k].char : k \in 1..Len(leaves)} = CharsOf(text)
        /\ TreeOfText.freq = Len(text)
        /\ JSONParse(tree) = TreeOfText

\* "AAABBC" has been compressed: the tree has three leaves under a root of
\* frequency 6, the leaf of 'A' holding 3
C21_Witness ==
    /\ HuffmanCompressedSeveral
    /\ pc = "compressed"
    /\ text = <<65, 65, 65, 66, 66, 67>>
    /\ Len(LeavesOf(TreeOfText)) = 3
    /\ TreeOfText.freq = 6
    /\ TreeOfText.left = [char |-> 65, freq |-> 3]

\* a is a proper or improper prefix of b
IsPrefix(a, b) == Len(a) <= Len(b) /\ SubSeq(b, 1, Len(a)) = a

\* the node reached from node along the bits, '0' left and '1' right; a
\* node of frequency 0 when the path leaves the tree
RECURSIVE NodeAt(_, _)
NodeAt(node, bits) ==
    IF bits = <<>> THEN node
    ELSE IF bits[1] = 48 /\ HasLeft(node) THEN NodeAt(node.left, Tail(bits))
    ELSE IF bits[1] = 49 /\ HasRight(node) THEN NodeAt(node.right, Tail(bits))
    ELSE [freq |-> 0]

\* C22: Huffman codes are a prefix code: for every text of two or more
\* distinct characters the encoding map gives every character of the text a
\* non-empty string of '0' and '1' that leads from the root to the
\* character's leaf (left '0', right '1'), distinct characters get distinct
\* codes, and no character's code is a prefix of another's.
C22_HuffmanPrefixCode ==
    HuffmanCompressedSeveral =>
        /\ DOMAIN EncodingMapOfText = CharsOf(text)
        /\ \A a \in CharsOf(text) :
              LET code == EncodingMapOfText[a] IN
              /\ code # <<>>
              /\ \A k \in 1..Len(code) : code[k] \in {48, 49}
              /\ NodeAt(TreeOfText, code) = [char |-> a,
                                             freq |-> Occurrences(text, a)]
        /\ \A a \in CharsOf(text), b \in CharsOf(text) :
              a # b => ~IsPrefix(EncodingMapOfText[a], EncodingMapOfText[b])

\* "AAABBC" has been compressed with the codes A = 0, C = 10, B = 11
C22_Witness ==
    /\ HuffmanCompressedSeveral
    /\ pc = "compressed"
    /\ text = <<65, 65, 65, 66, 66, 67>>
    /\ EncodingMapOfText[65] = <<48>>
    /\ EncodingMapOfText[67] = <<49, 48>>
    /\ EncodingMapOfText[66] = <<49, 49>>

\* the positions of c that hold no decimal digit
NonDigits(c) == {k \in 1..Len(c) : c[k] \notin 48..57}

\* the number the digits of c at positions a..b write in decimal; 1 when
\* there is none
CountWritten(c, a, b) ==
    IF b < a THEN 1
    ELSE LET value[k \in (a - 1)..b] ==
                 IF k < a THEN 0 ELSE 10 * value[k - 1] + (c[k] - 48)
         IN  value[b]

\* the text c stands for up to its position j: each non-digit character as
\* many times as the digits immediately before it say
RECURSIVE Expanded(_, _)
Expanded(c, j) ==
    LET at == {k \in NonDigits(c) : k <= j} IN
    IF at = {} THEN <<>>
    ELSE LET last == CHOOSE k \in at : \A h \in at : h <= k
             before == {k \in at : k < last}
             prev == IF before = {} THEN 0
                     ELSE CHOOSE k \in before : \A h \in before : h <= k
             n == CountWritten(c, prev + 1, last - 1)
         IN  Expanded(c, prev) \o [x \in 1..n |-> c[last]]

\* RLE decompress has run on a non-empty string that does not end in a digit
RLEDecodedWellEnded ==
    /\ pc = "done"
    /\ codec = "RLE"
    /\ comp # <<>>
    /\ Len(comp) \in NonDigits(comp)

\* C24: RLE decode semantics: for every compressed string that does not end
\* in a digit, decompress returns the concatenation, in order, of each
\* non-digit character repeated as many times as the decimal number written
\* immediately before it (once when there is none, no copy for a count of
\* 0); "3A2BC" gives "AAABBC".  The bad-repeat-count error is never raised,
\* for any input.
C24_RLEDecodeSemantics ==
    /\ RLEDecodedWellEnded =>
          /\ out = Return(Expanded(comp, Len(comp)))
          /\ comp = <<51, 65, 50, 66, 67>>
                => out.value = <<65, 65, 65, 66, 66, 67>>
    /\ (pc = "done" /\ codec = "RLE") => out.message # "Bad repeat count"

\* "20A0B" has been decompressed to twenty times 'A' and no 'B'
C24_Witness ==
    /\ RLEDecodedWellEnded
    /\ comp = <<50, 48, 65, 48, 66>>
    /\ out.value = [x \in 1..20 |-> 65]

\* no character of the text is a decimal digit
DigitFree == \A k \in 1..Len(text) : text[k] \notin 48..57

\* C25: RLE round-trip on digit-free text: for every text without a decimal
\* digit, decompress(compress(T)) returns exactly T and raises nothing.
C25_RLEDigitFreeRoundTrip ==
    (RoundTripDone("RLE") /\ DigitFree) => ReturnedText

\* "AAABBC" has been compressed to "3A2BC" and decompressed to itself
C25_Witness ==
    /\ RoundTripDone("RLE")
    /\ DigitFree
    /\ text = <<65, 65, 65, 66, 66, 67>>
    /\ comp = <<51, 65, 50, 66, 67>>
    /\ out = Return(text)

\* the step is an iteration of the while loop of buildHuffmanTree
Combines ==
    /\ treeBuild.pc = "loop"
    /\ treeBuild'.pc = "loop"
    /\ treeBuild'.minHeap # treeBuild.minHeap

\* the step is the return of buildHuffmanTree after its loop
ReturnsRoot == treeBuild.pc = "loop" /\ treeBuild'.pc = "done"

\* every internal node's left child has a frequency not above its right's
RECURSIVE LeftNotAbove(_)
LeftNotAbove(node) ==
    (HasLeft(node) /\ HasRight(node)) =>
        /\ node.left.freq <= node.right.freq
        /\ LeftNotAbove(node.left)
        /\ LeftNotAbove(node.right)

\* the number of nodes of the tree that have children
RECURSIVE InternalNodes(_)
InternalNodes(node) ==
    IF HasLeft(node) /\ HasRight(node)
    THEN 1 + InternalNodes(node.left) + InternalNodes(node.right)
    ELSE 0

\* C23: Huffman construction order: for two or more distinct characters,
\* buildHuffmanTree combines at each step the two lowest-frequency nodes in
\* the heap, the first extracted as left child and the second as right
\* child, so in the final tree every internal node's left child has a
\* frequency not above its right child's; the loop ends with exactly one
\* node, the root, after k-1 combinations for k distinct characters.
C23_HuffmanConstructionOrder ==
    [][/\ Combines =>
             LET h == treeBuild.minHeap
                 l == treeBuild'.left
                 r == treeBuild'.right
             IN  /\ \E i \in DOMAIN h, j \in DOMAIN h :
                       /\ i # j
                       /\ h[i] = l
                       /\ h[j] = r
                       /\ \A k \in DOMAIN h : h[k].freq >= l.freq
                       /\ \A k \in DOMAIN h \ {i} : h[k].freq >= r.freq
                 /\ HeapSize(treeBuild'.minHeap) = HeapSize(h) - 1
                 /\ \E k \in DOMAIN treeBuild'.minHeap :
                       LET parent == treeBuild'.minHeap[k] IN
                       /\ HasLeft(parent) /\ HasRight(parent)
                       /\ parent.left = l
                       /\ parent.right = r
                       /\ parent.freq = l.freq + r.freq
       /\ ReturnsRoot =>
             /\ HeapSize(treeBuild.minHeap) = 1
             /\ treeBuild'.root = treeBuild.minHeap[0]
             /\ HeapSize(treeBuild'.minHeap) = 0
             /\ LeftNotAbove(treeBuild'.root)
             /\ InternalNodes(treeBuild'.root) = Len(treeBuild.freqMap) - 1]_vars

\* buildHuffmanTree has returned the tree of "AAABBC": two combinations, the
\* last of 'A' (3) as left child with the parent of 'C' and 'B' (3) as right
C23_Witness ==
    /\ treeBuild.pc = "done"
    /\ Len(treeBuild.freqMap) = 3
    /\ InternalNodes(treeBuild.root) = 2
    /\ treeBuild.left = [char |-> 65, freq |-> 3]
    /\ treeBuild.right = ParentNode([char |-> 67, freq |-> 1],
                                    [char |-> 66, freq |-> 2])
    /\ treeBuild.root = ParentNode(treeBuild.left, treeBuild.right)

\* the compressed data is what the algorithm makes of the text of the file
ComputedFrom(compressedData, a, file) ==
    /\ file \in {FileA, FileB}
    /\ compressedData = CompressWith(a, PDFText(file)).compressed

\* C26: UI result consistency under interleaving: in App, for every
\* interleaving of file selection, tab switching and the completion of a
\* handleCompress in flight, whenever a compression result is stored the
\* selected file is non-null and is the file the result was computed from,
\* so the download filename is built from that file's name.
C26_AppResultConsistency ==
    /\ resultState # null =>
          /\ selectedFile # null
          /\ ComputedFrom(resultState.compressedData, resultState.algorithm,
                          selectedFile)
    /\ downloaded # null =>
          \E file \in {FileA, FileB}, a \in {"RLE", "Huffman", "LZW"} :
              /\ ComputedFrom(downloaded.content, a, file)
              /\ downloaded.filename = DownloadFilename(file, a)

=============================================================================
